---- MODULE Spec2Model ----
(***************************************************************************)
(* MindTrack backend (src/backend.py): the habits and habit_logs tables,   *)
(* the request handlers that write them, and calculate_stats, the function *)
(* that folds the stored day records into the statistics.                  *)
(*                                                                         *)
(* Python strings are sequences of one-character strings, so that          *)
(* str.capitalize() and iteration over a str do what Python does.  The     *)
(* text stored in habit_logs.habits_json is a sequence of JSON tokens      *)
(* produced by json_dumps and read back by json_loads.  A calendar date is *)
(* an ordinal; IsoFormat turns it into the (year, month, day) triple whose *)
(* zero-padded text is the log_date key.  The id column of habit_logs,     *)
(* which no statement of the program reads, is left out of its rows.       *)
(*                                                                         *)
(* The database directory exists, so get_db_conn returns a connection, and *)
(* every request body is a JSON object.  A handler is split where another  *)
(* request can come between its steps: after the request is read (with     *)
(* date.today()), and between a committed statement and the SELECT that    *)
(* follows it.                                                             *)
(***************************************************************************)
EXTENDS Integers, Sequences, FiniteSets, TLC

VARIABLES today, habits, habits_seq, habit_logs, pc, req, resp

vars == <<today, habits, habits_seq, habit_logs, pc, req, resp>>

(***************************************************************************)
(* Bounds of the model.                                                    *)
(***************************************************************************)
\* the clock stops advancing at this ordinal
MaxDay == 3
\* habits AUTOINCREMENT ids handed out before /add_habit requests stop
MaxHabitId == 5
\* length of the pre-existing history in the long-history specification
MaxHistory == 9

(***************************************************************************)
(* Python str                                                              *)
(***************************************************************************)
Upper(c) ==
  CASE c = "a" -> "A" [] c = "b" -> "B" [] c = "c" -> "C" [] OTHER -> c

Lower(c) ==
  CASE c = "A" -> "a" [] c = "B" -> "b" [] c = "C" -> "c"
    [] c = "N" -> "n" [] OTHER -> c

\* str.capitalize(): first character upper-cased, all the others lower-cased
capitalize(s) ==
  [i \in 1..Len(s) |-> IF i = 1 THEN Upper(s[i]) ELSE Lower(s[i])]

NoneYet == <<"N", "o", "n", "e", " ", "y", "e", "t">>

\* the habit names requests carry
NameSet == { <<"a", "B">>, <<"C">> }

(***************************************************************************)
(* Python values carried under "habits" and the json module                *)
(***************************************************************************)
PyList(items) == [k |-> "list", v |-> items]
PyStr(s)      == [k |-> "str",  v |-> s]
PyDict(keys)  == [k |-> "dict", v |-> keys]
PyNone        == [k |-> "None", v |-> <<>>]
PyInt         == [k |-> "int",  v |-> <<>>]

Tok(t, s) == [t |-> t, s |-> s]
LBracket == Tok("[", <<>>)
RBracket == Tok("]", <<>>)
LBrace   == Tok("{", <<>>)
RBrace   == Tok("}", <<>>)
Comma    == Tok(",", <<>>)
Colon    == Tok(":", <<>>)
NullTok  == Tok("null", <<>>)
NumTok   == Tok("7", <<>>)
StrTok(s) == Tok("str", s)

RECURSIVE DumpItems(_)
DumpItems(items) ==
  IF items = <<>> THEN <<>>
  ELSE IF Len(items) = 1 THEN <<StrTok(items[1])>>
  ELSE <<StrTok(items[1]), Comma>> \o DumpItems(Tail(items))

RECURSIVE DumpMembers(_)
DumpMembers(keys) ==
  IF keys = <<>> THEN <<>>
  ELSE IF Len(keys) = 1 THEN <<StrTok(keys[1]), Colon, NumTok>>
  ELSE <<StrTok(keys[1]), Colon, NumTok, Comma>> \o DumpMembers(Tail(keys))

json_dumps(x) ==
  CASE x.k = "list" -> <<LBracket>> \o DumpItems(x.v) \o <<RBracket>>
    [] x.k = "dict" -> <<LBrace>> \o DumpMembers(x.v) \o <<RBrace>>
    [] x.k = "str"  -> <<StrTok(x.v)>>
    [] x.k = "None" -> <<NullTok>>
    [] x.k = "int"  -> <<NumTok>>

JSONDecodeError == [k |-> "JSONDecodeError", v |-> <<>>]

\* the strings of a comma-separated run of string tokens, or the error
RECURSIVE LoadItems(_)
LoadItems(toks) ==
  IF toks = <<>> THEN JSONDecodeError
  ELSE IF toks[1].t # "str" THEN JSONDecodeError
  ELSE IF Len(toks) = 1 THEN PyList(<<toks[1].s>>)
  ELSE IF toks[2] # Comma THEN JSONDecodeError
  ELSE LET rest == LoadItems(SubSeq(toks, 3, Len(toks)))
       IN IF rest = JSONDecodeError THEN JSONDecodeError
          ELSE PyList(<<toks[1].s>> \o rest.v)

RECURSIVE LoadMembers(_)
LoadMembers(toks) ==
  IF Len(toks) < 3 THEN JSONDecodeError
  ELSE IF toks[1].t # "str" \/ toks[2] # Colon \/ toks[3] # NumTok
       THEN JSONDecodeError
  ELSE IF Len(toks) = 3 THEN PyDict(<<toks[1].s>>)
  ELSE IF toks[4] # Comma THEN JSONDecodeError
  ELSE LET rest == LoadMembers(SubSeq(toks, 5, Len(toks)))
       IN IF rest = JSONDecodeError THEN JSONDecodeError
          ELSE PyDict(<<toks[1].s>> \o rest.v)

json_loads(text) ==
  IF text = <<>> THEN JSONDecodeError
  ELSE IF Len(text) = 1 THEN
    CASE text[1].t = "str"  -> PyStr(text[1].s)
      [] text[1].t = "null" -> PyNone
      [] text[1].t = "7"    -> PyInt
      [] OTHER -> JSONDecodeError
  ELSE IF text[1] = LBracket /\ text[Len(text)] = RBracket THEN
    IF Len(text) = 2 THEN PyList(<<>>)
    ELSE LoadItems(SubSeq(text, 2, Len(text) - 1))
  ELSE IF text[1] = LBrace /\ text[Len(text)] = RBrace THEN
    IF Len(text) = 2 THEN PyDict(<<>>)
    ELSE LoadMembers(SubSeq(text, 2, Len(text) - 1))
  ELSE JSONDecodeError

\* len(x) raises TypeError for None and for an int
HasLen(x) == x.k \in {"list", "str", "dict"}
PyLen(x) == Len(x.v)

\* the values a for loop over x binds: the items of a list, the keys of a
\* dict, the one-character strings of a str
PyIter(x) ==
  IF x.k = "str" THEN [i \in 1..Len(x.v) |-> <<x.v[i]>>] ELSE x.v

(***************************************************************************)
(* datetime.date                                                           *)
(***************************************************************************)
IsLeap(y) == (y % 4 = 0 /\ y % 100 # 0) \/ y % 400 = 0

DaysInMonth(y, m) ==
  IF m = 2 THEN (IF IsLeap(y) THEN 29 ELSE 28)
  ELSE IF m \in {4, 6, 9, 11} THEN 30 ELSE 31

NextDate(d) ==
  IF d[3] < DaysInMonth(d[1], d[2]) THEN <<d[1], d[2], d[3] + 1>>
  ELSE IF d[2] < 12 THEN <<d[1], d[2] + 1, 1>>
  ELSE <<d[1] + 1, 1, 1>>

\* the date of ordinal 0
Epoch == <<2024, 2, 26>>

\* date.isoformat(): the fields of YYYY-MM-DD
RECURSIVE IsoFormat(_)
IsoFormat(n) == IF n = 0 THEN Epoch ELSE NextDate(IsoFormat(n - 1))

\* comparison of two YYYY-MM-DD texts
IsoLess(a, b) ==
  \/ a[1] < b[1]
  \/ a[1] = b[1] /\ a[2] < b[2]
  \/ a[1] = b[1] /\ a[2] = b[2] /\ a[3] < b[3]

(***************************************************************************)
(* SQL on habit_logs                                                       *)
(***************************************************************************)
\* the text json.dumps([]) produces, the literal of the WHERE clause
EmptyListText == <<LBracket, RBracket>>

\* (mutant) the WHERE clause left out
WhereAnyRow(rows) == rows

\* WHERE habits_json != '[]'
WhereNotEmptyList(rows) == {r \in rows : r.habits_json # EmptyListText}

\* ORDER BY log_date DESC (log_date is UNIQUE)
RECURSIVE OrderByDateDesc(_)
OrderByDateDesc(rows) ==
  IF rows = {} THEN <<>>
  ELSE LET top == CHOOSE r \in rows :
                    \A o \in rows : o = r \/ IsoLess(o.log_date, r.log_date)
       IN <<top>> \o OrderByDateDesc(rows \ {top})

SelectLoggedRows(rows) == OrderByDateDesc(WhereNotEmptyList(rows))

(***************************************************************************)
(* calculate_stats                                                         *)
(***************************************************************************)
\* habit_counts is a dict: a sequence of entries in insertion order
DictGet(d, key) ==
  IF \E i \in 1..Len(d) : d[i].key = key
  THEN (d[CHOOSE i \in 1..Len(d) : d[i].key = key]).n
  ELSE 0

DictSet(d, key, n) ==
  IF \E i \in 1..Len(d) : d[i].key = key
  THEN [i \in 1..Len(d) |-> IF d[i].key = key THEN [key |-> key, n |-> n] ELSE d[i]]
  ELSE Append(d, [key |-> key, n |-> n])

\* for habit in habits: habit_counts[habit] = habit_counts.get(habit, 0) + 1
RECURSIVE CountHabits(_, _)
CountHabits(d, items) ==
  IF items = <<>> THEN d
  ELSE CountHabits(DictSet(d, items[1], DictGet(d, items[1]) + 1), Tail(items))

\* (mutant) the last key with the largest count instead of the first
MaxKeyLast(d) ==
  d[CHOOSE i \in 1..Len(d) :
      /\ \A j \in 1..Len(d) : d[j].n <= d[i].n
      /\ \A j \in (i + 1)..Len(d) : d[j].n < d[i].n].key

\* max(habit_counts, key=habit_counts.get): the first key, in insertion
\* order, whose count no other key exceeds
MaxKey(d) ==
  d[CHOOSE i \in 1..Len(d) :
      /\ \A j \in 1..Len(d) : d[j].n <= d[i].n
      /\ \A j \in 1..(i - 1) : d[j].n < d[i].n].key

\* the body of "for row in rows", one row
ScanRow(acc, row) ==
  LET dates  == acc.logged_dates \cup {row.log_date}
      habits_ == json_loads(row.habits_json)
  IN IF habits_ = JSONDecodeError
       THEN [acc EXCEPT !.logged_dates = dates]
     ELSE IF ~HasLen(habits_)
       THEN [acc EXCEPT !.logged_dates = dates, !.raised = "TypeError"]
     ELSE [acc EXCEPT !.logged_dates = dates,
                      !.total_habits_completed = @ + PyLen(habits_),
                      !.habit_counts = CountHabits(@, PyIter(habits_))]

\* the loop; an exception ends it
RECURSIVE ScanRows(_, _)
ScanRows(acc, rows) ==
  IF rows = <<>> \/ acc.raised # "" THEN acc
  ELSE ScanRows(ScanRow(acc, rows[1]), Tail(rows))

\* while check_date.isoformat() in logged_dates: current_streak += 1 ...
RECURSIVE WalkBack(_, _)
WalkBack(check_date, logged_dates) ==
  IF check_date >= 0 /\ IsoFormat(check_date) \in logged_dates
  THEN 1 + WalkBack(check_date - 1, logged_dates)
  ELSE 0

\* (mutant) no second chance from yesterday when today is not logged
CurrentStreakNoGrace(logged_dates, day) ==
  IF IsoFormat(day) \in logged_dates
    THEN 1 + WalkBack(day - 1, logged_dates)
  ELSE 0

\* lines 125-139
CurrentStreak(logged_dates, day) ==
  IF IsoFormat(day) \in logged_dates
    THEN 1 + WalkBack(day - 1, logged_dates)
  ELSE IF IsoFormat(day - 1) \in logged_dates
    THEN WalkBack(day - 1, logged_dates)
  ELSE 0

\* (mutant) the second band ends one day early
StreakEmojiShort(current_streak) ==
  IF 1 <= current_streak /\ current_streak <= 3 THEN "U+1F60A"
  ELSE IF 4 <= current_streak /\ current_streak <= 6 THEN "U+1F525"
  ELSE IF current_streak > 6 THEN "U+1F3C6"
  ELSE "U+1F614"

\* lines 142-148; the four emoji are named by their code points
StreakEmoji(current_streak) ==
  IF 1 <= current_streak /\ current_streak <= 3 THEN "U+1F60A"
  ELSE IF 4 <= current_streak /\ current_streak <= 7 THEN "U+1F525"
  ELSE IF current_streak > 7 THEN "U+1F3C6"
  ELSE "U+1F614"

NoStats == [total_days |-> 0, best_habit |-> <<>>, current_streak |-> 0,
            total_habits_completed |-> 0, streak_emoji |-> ""]

\* the result: the exception that escapes (raised # "") or the dict returned
calculate_stats(table, day) ==
  LET rows == SelectLoggedRows(table)
      acc  == ScanRows([habit_counts |-> <<>>, logged_dates |-> {},
                        total_habits_completed |-> 0, raised |-> ""], rows)
      best_habit == IF acc.habit_counts # <<>> THEN MaxKey(acc.habit_counts)
                    ELSE NoneYet
      current_streak == CurrentStreak(acc.logged_dates, day)
  IN IF acc.raised # "" THEN [raised |-> acc.raised, stats |-> NoStats]
     ELSE [raised |-> "",
           stats |-> [total_days |-> Len(rows),
                      best_habit |-> capitalize(best_habit),
                      current_streak |-> current_streak,
                      total_habits_completed |-> acc.total_habits_completed,
                      streak_emoji |-> StreakEmoji(current_streak)]]

(***************************************************************************)
(* The habits table                                                        *)
(***************************************************************************)
DrinkWater ==
  <<"D", "r", "i", "n", "k", " ", "8", " ", "g", "l", "a", "s", "s",
  "e", "s", " ", "o", "f", " ", "w", "a", "t", "e", "r">>

ReadMinutes ==
  <<"R", "e", "a", "d", " ", "f", "o", "r", " ", "2", "0", " ", "m",
  "i", "n", "u", "t", "e", "s">>

GoWalk ==
  <<"G", "o", " ", "f", "o", "r", " ", "a", " ", "1", "5", "-", "m",
  "i", "n", " ", "w", "a", "l", "k">>

\* init_db: the three default habits, is_deletable = 0
default_habits ==
  { [id |-> 1, name |-> DrinkWater, is_deletable |-> 0],
    [id |-> 2, name |-> ReadMinutes, is_deletable |-> 0],
    [id |-> 3, name |-> GoWalk, is_deletable |-> 0] }

\* SELECT id, name, is_deletable FROM habits ORDER BY id
RECURSIVE SelectHabits(_)
SelectHabits(table) ==
  IF table = {} THEN <<>>
  ELSE LET first == CHOOSE r \in table : \A o \in table : r.id <= o.id
       IN <<first>> \o SelectHabits(table \ {first})

\* INSERT OR IGNORE INTO habits (name, is_deletable) VALUES (?, 1): a row
\* that would break UNIQUE(name) is skipped
InsertOrIgnoreHabit(table, seq, name) ==
  IF \E r \in table : r.name = name THEN table
  ELSE table \cup {[id |-> seq + 1, name |-> name, is_deletable |-> 1]}

\* the values the AUTOINCREMENT sequence may hold after that statement: an
\* id is drawn before the UNIQUE check, and a skipped row may or may not
\* use it up
InsertOrIgnoreSeqs(table, seq, name) ==
  IF \E r \in table : r.name = name THEN {seq, seq + 1} ELSE {seq + 1}

\* whether that statement raises sqlite3.IntegrityError: OR IGNORE never does
InsertRaisesIntegrityError(table, name) == FALSE

\* DELETE FROM habits WHERE id = ? AND is_deletable = 1
DeleteHabit(table, id) ==
  {r \in table : ~(r.id = id /\ r.is_deletable = 1)}

(***************************************************************************)
(* The habit_logs table                                                    *)
(***************************************************************************)
\* (mutant) INSERT OR IGNORE: the first write of a date wins
InsertOrIgnoreLog(table, log_date, habits_json) ==
  IF \E r \in table : r.log_date = log_date THEN table
  ELSE table \cup {[log_date |-> log_date, habits_json |-> habits_json]}

\* INSERT OR REPLACE INTO habit_logs (log_date, habits_json) VALUES (?, ?):
\* the row that holds the same UNIQUE log_date is deleted first
InsertOrReplaceLog(table, log_date, habits_json) ==
  {r \in table : r.log_date # log_date}
    \cup {[log_date |-> log_date, habits_json |-> habits_json]}

(***************************************************************************)
(* Requests and responses                                                  *)
(***************************************************************************)
Procs == {"p1", "p2"}

NoReq == [op |-> "", name |-> <<>>, id |-> 0, habits_list |-> PyNone,
          habits_json |-> <<>>, log_date |-> <<>>]

NoResp == [status |-> 0, error |-> "", habits |-> <<>>, raised |-> "",
           stats |-> NoStats, category |-> "", choice |-> 0, logged |-> 0]

\* jsonify({"error": ...}), code
ErrorResp(status, error) == [NoResp EXCEPT !.status = status, !.error = error]

\* db_operation: an exception that escapes the handler becomes a 500
InternalError(raised) ==
  [NoResp EXCEPT !.status = 500, !.raised = raised,
                 !.error = "An internal server error occurred."]

\* the values a /log request carries under "habits": lists of habit names
\* (empty, one name, two names, one name twice) and the JSON values that
\* are no list (null, a number, a string, an object)
HabitsInputs ==
  { PyList(<<>>), PyList(<< <<"C">> >>), PyList(<< <<"a", "B">>, <<"C">> >>),
    PyList(<< <<"C">>, <<"C">> >>),
    PyNone, PyInt, PyStr(<<"a", "B">>), PyDict(<< <<"C">> >>) }

\* the lists two racing /log requests carry
RaceInputs ==
  { PyList(<<>>), PyList(<< <<"a", "B">> >>), PyList(<< <<"C">> >>) }

\* the values an /add_habit request carries under "name"
NameInputs == NameSet \cup {ReadMinutes, <<>>}

\* the values a /delete_habit request carries under "id"
IdInputs == 0..MaxHabitId

(***************************************************************************)
(* Initial state: the database init_db leaves, no request in flight        *)
(***************************************************************************)
Init ==
  /\ today = 1
  /\ habits = default_habits
  /\ habits_seq = 3
  /\ habit_logs = {}
  /\ pc = [p \in Procs |-> "idle"]
  /\ req = [p \in Procs |-> NoReq]
  /\ resp = [p \in Procs |-> NoResp]

Finish(p, r) ==
  /\ pc' = [pc EXCEPT ![p] = "done"]
  /\ resp' = [resp EXCEPT ![p] = r]

(***************************************************************************)
(* /add_habit                                                              *)
(***************************************************************************)
\* lines 196-199: the request is read and validated
add_habit_begin(p, name) ==
  /\ pc[p] = "idle"
  /\ habits_seq < MaxHabitId
  /\ req' = [req EXCEPT ![p] = [NoReq EXCEPT !.op = "add_habit", !.name = name]]
  /\ IF name = <<>>
       THEN Finish(p, ErrorResp(400, "Habit name is required"))
       ELSE /\ pc' = [pc EXCEPT ![p] = "add_insert"]
            /\ UNCHANGED resp
  /\ UNCHANGED <<today, habits, habits_seq, habit_logs>>

\* lines 205-208 and 216-218: the INSERT and its commit
add_habit_insert(p) ==
  /\ pc[p] = "add_insert"
  /\ IF InsertRaisesIntegrityError(habits, req[p].name)
       THEN /\ Finish(p, ErrorResp(409, "This habit already exists"))
            /\ UNCHANGED <<habits, habits_seq>>
       ELSE /\ habits' = InsertOrIgnoreHabit(habits, habits_seq, req[p].name)
            /\ habits_seq' \in InsertOrIgnoreSeqs(habits, habits_seq, req[p].name)
            /\ pc' = [pc EXCEPT ![p] = "add_select"]
            /\ UNCHANGED resp
  /\ UNCHANGED <<today, habit_logs, req>>

\* lines 211-214: the updated list is read and returned
add_habit_select(p) ==
  /\ pc[p] = "add_select"
  /\ Finish(p, [NoResp EXCEPT !.status = 200, !.habits = SelectHabits(habits)])
  /\ UNCHANGED <<today, habits, habits_seq, habit_logs, req>>

(***************************************************************************)
(* /delete_habit                                                           *)
(***************************************************************************)
\* lines 226-229
delete_habit_begin(p, id) ==
  /\ pc[p] = "idle"
  /\ req' = [req EXCEPT ![p] = [NoReq EXCEPT !.op = "delete_habit", !.id = id]]
  /\ IF id = 0
       THEN Finish(p, ErrorResp(400, "Habit ID is required"))
       ELSE /\ pc' = [pc EXCEPT ![p] = "delete"]
            /\ UNCHANGED resp
  /\ UNCHANGED <<today, habits, habits_seq, habit_logs>>

\* lines 235-236
delete_habit_delete(p) ==
  /\ pc[p] = "delete"
  /\ habits' = DeleteHabit(habits, req[p].id)
  /\ pc' = [pc EXCEPT ![p] = "delete_select"]
  /\ UNCHANGED <<today, habits_seq, habit_logs, req, resp>>

\* lines 239-242
delete_habit_select(p) ==
  /\ pc[p] = "delete_select"
  /\ Finish(p, [NoResp EXCEPT !.status = 200, !.habits = SelectHabits(habits)])
  /\ UNCHANGED <<today, habits, habits_seq, habit_logs, req>>

(***************************************************************************)
(* /log                                                                    *)
(***************************************************************************)
\* lines 272-275: the list is serialised and today's date taken
log_habit_begin(p, habits_list) ==
  /\ pc[p] = "idle"
  /\ req' = [req EXCEPT ![p] =
               [NoReq EXCEPT !.op = "log", !.habits_list = habits_list,
                             !.habits_json = json_dumps(habits_list),
                             !.log_date = IsoFormat(today)]]
  /\ pc' = [pc EXCEPT ![p] = "log_insert"]
  /\ UNCHANGED <<today, habits, habits_seq, habit_logs, resp>>

\* lines 282-291: the upsert, its commit, and the message, whose
\* len(habits_list) raises TypeError after the commit when there is no len
log_habit_insert(p) ==
  /\ pc[p] = "log_insert"
  /\ habit_logs' = InsertOrReplaceLog(habit_logs, req[p].log_date,
                                      req[p].habits_json)
  /\ IF HasLen(req[p].habits_list)
       THEN Finish(p, [NoResp EXCEPT !.status = 200,
                                     !.logged = PyLen(req[p].habits_list)])
       ELSE Finish(p, InternalError("TypeError"))
  /\ UNCHANGED <<today, habits, habits_seq, req>>

(***************************************************************************)
(* /get_stats and /get_motivation                                          *)
(***************************************************************************)
get_stats(p) ==
  /\ pc[p] = "idle"
  /\ LET r == calculate_stats(habit_logs, today)
     IN IF r.raised # "" THEN Finish(p, InternalError(r.raised))
        ELSE Finish(p, [NoResp EXCEPT !.status = 200, !.stats = r.stats])
  /\ req' = [req EXCEPT ![p] = [NoReq EXCEPT !.op = "get_stats"]]
  /\ UNCHANGED <<today, habits, habits_seq, habit_logs>>

\* lines 335-359: the list of messages the streak selects
MessageCategory(streak) ==
  IF streak = 0 THEN "start"
  ELSE IF 1 <= streak /\ streak <= 3 THEN "great start"
  ELSE IF 4 <= streak /\ streak <= 7 THEN "on fire"
  ELSE "real habit"

\* the length of that list
MessageCount(category) == IF category = "start" THEN 4 ELSE 3

get_motivation(p) ==
  /\ pc[p] = "idle"
  /\ LET r == calculate_stats(habit_logs, today)
         category == MessageCategory(r.stats.current_streak)
     IN IF r.raised # "" THEN Finish(p, InternalError(r.raised))
        ELSE \E choice \in 1..MessageCount(category) :
               Finish(p, [NoResp EXCEPT !.status = 200, !.category = category,
                                        !.choice = choice])
  /\ req' = [req EXCEPT ![p] = [NoReq EXCEPT !.op = "get_motivation"]]
  /\ UNCHANGED <<today, habits, habits_seq, habit_logs>>

(***************************************************************************)
(* Environment                                                             *)
(***************************************************************************)
\* midnight: date.today() moves on
Tick ==
  /\ today < MaxDay
  /\ today' = today + 1
  /\ UNCHANGED <<habits, habits_seq, habit_logs, pc, req, resp>>

\* the response is delivered; the worker is free again
Return(p) ==
  /\ pc[p] = "done"
  /\ pc' = [pc EXCEPT ![p] = "idle"]
  /\ req' = [req EXCEPT ![p] = NoReq]
  /\ resp' = [resp EXCEPT ![p] = NoResp]
  /\ UNCHANGED <<today, habits, habits_seq, habit_logs>>

NextHabits ==
  \/ \E p \in Procs, name \in NameInputs : add_habit_begin(p, name)
  \/ \E p \in Procs : add_habit_insert(p)
  \/ \E p \in Procs : add_habit_select(p)
  \/ \E p \in Procs, id \in IdInputs : delete_habit_begin(p, id)
  \/ \E p \in Procs : delete_habit_delete(p)
  \/ \E p \in Procs : delete_habit_select(p)
  \/ \E p \in Procs : Return(p)

NextLogs ==
  \/ \E p \in Procs, h \in RaceInputs : log_habit_begin(p, h)
  \/ \E p \in Procs : log_habit_insert(p)
  \/ \E p \in Procs : Return(p)
  \/ Tick

NextStats ==
  \/ \E h \in HabitsInputs : log_habit_begin("p1", h)
  \/ log_habit_insert("p1")
  \/ get_stats("p1")
  \/ get_motivation("p1")
  \/ Return("p1")
  \/ Tick

Next ==
  \/ NextHabits
  \/ \E p \in Procs, h \in HabitsInputs : log_habit_begin(p, h)
  \/ \E p \in Procs : log_habit_insert(p)
  \/ \E p \in Procs : get_stats(p)
  \/ \E p \in Procs : get_motivation(p)
  \/ Tick

\* the statistics endpoints read a history that is already there
NextHistory ==
  \/ \E p \in Procs : get_stats(p)
  \/ \E p \in Procs : get_motivation(p)
  \/ \E p \in Procs : Return(p)

\* a database after MaxHistory days of use: any of the days 1..MaxHistory
\* may hold a record, written on that day by /log with one habit name
InitHistory ==
  /\ today = MaxHistory
  /\ habits = default_habits
  /\ habits_seq = 3
  /\ \E days \in SUBSET (1..MaxHistory) :
       habit_logs = { [log_date |-> IsoFormat(d),
                       habits_json |-> json_dumps(PyList(<< <<"C">> >>))] :
                      d \in days }
  /\ pc = [p \in Procs |-> "idle"]
  /\ req = [p \in Procs |-> NoReq]
  /\ resp = [p \in Procs |-> NoResp]

\* every endpoint, two workers
Spec == Init /\ [][Next]_vars

\* the habit endpoints, two workers (they never touch habit_logs)
SpecHabits == Init /\ [][NextHabits]_vars

\* two workers racing on /log while the date moves on
SpecLogs == Init /\ [][NextLogs]_vars

\* one worker logging and reading the statistics while the date moves on
SpecStats == Init /\ [][NextStats]_vars

\* two workers reading the statistics of a long history
SpecHistory == InitHistory /\ [][NextHistory]_vars

(***************************************************************************)
(* What the claims speak of, stated without the loops of calculate_stats   *)
(***************************************************************************)
\* what calculate_stats returns (or raises) in the current state
Stats == calculate_stats(habit_logs, today)

Decoded(r) == json_loads(r.habits_json)

\* the payload is the expected list of habit names
WellFormed(r) == Decoded(r).k = "list"

AllWellFormed == \A r \in habit_logs : WellFormed(r)

\* the set of habit names of a well-formed record
HabitSet(r) == {Decoded(r).v[i] : i \in 1..Len(Decoded(r).v)}

\* the well-formed records with a non-empty habit set
LoggedRecords(table) == {r \in table : WellFormed(r) /\ HabitSet(r) # {}}

LoggedOn(d) == \E r \in LoggedRecords(habit_logs) : r.log_date = IsoFormat(d)

\* the length of the maximal run of logged days that ends on day e
RunEndingAt(e) ==
  CHOOSE n \in 0..(e + 1) :
    /\ \A i \in 0..(n - 1) : LoggedOn(e - i)
    /\ n = e + 1 \/ ~LoggedOn(e - n)

ExpectedStreak ==
  IF LoggedOn(today) THEN RunEndingAt(today)
  ELSE IF LoggedOn(today - 1) THEN RunEndingAt(today - 1)
  ELSE 0

\* the first day, going back, that ends the run
GapDay ==
  IF LoggedOn(today) THEN today - ExpectedStreak
  ELSE today - 1 - ExpectedStreak

RowsBefore(d) == {r \in habit_logs : IsoLess(r.log_date, IsoFormat(d))}

\* a get_stats response that describes the current state
StatsAnswered(p) ==
  /\ pc[p] = "done"
  /\ req[p].op = "get_stats"
  /\ resp[p].status = 200
  /\ Stats.raised = ""
  /\ resp[p].stats = Stats.stats

SetSize(r) == Cardinality(HabitSet(r))

RECURSIVE SumOfSetSizes(_)
SumOfSetSizes(S) ==
  IF S = {} THEN 0
  ELSE LET x == CHOOSE y \in S : TRUE IN SetSize(x) + SumOfSetSizes(S \ {x})

\* every value the scan of calculate_stats iterates, in scan order
RECURSIVE Flatten(_)
Flatten(rows) ==
  IF rows = <<>> THEN <<>>
  ELSE (IF HasLen(Decoded(rows[1])) THEN PyIter(Decoded(rows[1])) ELSE <<>>)
         \o Flatten(Tail(rows))

Scanned == Flatten(SelectLoggedRows(habit_logs))

Occurrences(sq, name) == Cardinality({i \in 1..Len(sq) : sq[i] = name})

FirstSeen(sq, name) ==
  CHOOSE i \in 1..Len(sq) : sq[i] = name /\ \A j \in 1..(i - 1) : sq[j] # name

\* name has the largest count in sq, and is met first among those that have it
IsBest(sq, name) ==
  /\ \E i \in 1..Len(sq) : sq[i] = name
  /\ \A i \in 1..Len(sq) :
       \/ Occurrences(sq, sq[i]) < Occurrences(sq, name)
       \/ /\ Occurrences(sq, sq[i]) = Occurrences(sq, name)
          /\ FirstSeen(sq, name) <= FirstSeen(sq, sq[i])

(***************************************************************************)
(* C1: over a history of well-formed records, current_streak is the length *)
(* of the maximal run of consecutive logged dates that ends today when     *)
(* today is logged, else of the run that ends yesterday when yesterday is  *)
(* logged, else 0; records older than the gap that ends the run do not     *)
(* change it.                                                              *)
(***************************************************************************)
C1_StreakIsRun ==
  LET st == Stats
  IN AllWellFormed =>
       /\ st.raised = ""
       /\ st.stats.current_streak = ExpectedStreak
       /\ \A r \in RowsBefore(GapDay) :
            calculate_stats(habit_logs \ {r}, today).stats.current_streak
              = st.stats.current_streak

\* get_stats answered 2 on a day not yet logged, after two logged days
C1_Witness ==
  \E p \in Procs :
    /\ StatsAnswered(p)
    /\ AllWellFormed
    /\ today = 3 /\ ~LoggedOn(3) /\ LoggedOn(2) /\ LoggedOn(1)
    /\ resp[p].stats.current_streak = 2

(***************************************************************************)
(* C2: a record whose payload is not the expected list of habit names is   *)
(* left out of every aggregate: calculate_stats returns what it returns    *)
(* for the history without the malformed records.                          *)
(***************************************************************************)
C2_MalformedExcluded ==
  Stats.raised = "" =>
    Stats.stats =
      calculate_stats({r \in habit_logs : WellFormed(r)}, today).stats

(***************************************************************************)
(* C3: whatever JSON value /log stored, calculate_stats returns: no        *)
(* exception escapes it.                                                   *)
(***************************************************************************)
C3_NeverRaises == Stats.raised = ""

(***************************************************************************)
(* C4: a record with an empty habit list counts as no record: for every    *)
(* date d, the statistics of the history with an empty record for d are    *)
(* those of the history with no record for d.                              *)
(***************************************************************************)
C4_EmptyIsAbsent ==
  \A d \in 0..today :
    LET others == {r \in habit_logs : r.log_date # IsoFormat(d)}
        empty  == [log_date |-> IsoFormat(d),
                   habits_json |-> json_dumps(PyList(<<>>))]
    IN calculate_stats(others \cup {empty}, today)
         = calculate_stats(others, today)

\* get_stats answered while yesterday holds a stored empty record between
\* two logged days: one day of streak, two days logged
C4_Witness ==
  \E p \in Procs :
    /\ StatsAnswered(p)
    /\ today = 3 /\ LoggedOn(3) /\ LoggedOn(1)
    /\ [log_date |-> IsoFormat(2), habits_json |-> EmptyListText] \in habit_logs
    /\ resp[p].stats.current_streak = 1
    /\ resp[p].stats.total_days = 2

(***************************************************************************)
(* C5: add_habit with the name of an existing habit is answered with the   *)
(* 409 "This habit already exists" rejection (stated for the name of a     *)
(* seeded habit, which is always there).                                   *)
(***************************************************************************)
C5_DuplicateRejected ==
  \A p \in Procs :
    (pc[p] = "done" /\ req[p].op = "add_habit" /\ req[p].name = ReadMinutes)
      => resp[p].status = 409

(***************************************************************************)
(* C6: delete_habit on a habit that is not deletable is answered with a    *)
(* rejection the caller can tell from success (stated for the ids of the   *)
(* seeded habits).                                                         *)
(***************************************************************************)
C6_NotDeletableRejected ==
  \A p \in Procs :
    (pc[p] = "done" /\ req[p].op = "delete_habit" /\ req[p].id \in {1, 2, 3})
      => resp[p].status # 200

(***************************************************************************)
(* C7: every committed /log write leaves exactly one record for its date,  *)
(* holding exactly the list of that write, and leaves the records of every *)
(* other date as they were; no date ever has two records.                  *)
(***************************************************************************)
C7_LastWriteWins ==
  [][\A p \in Procs :
       (pc[p] = "log_insert" /\ pc'[p] = "done") =>
         /\ \A r \in habit_logs' :
              r.log_date = req[p].log_date => Decoded(r) = req[p].habits_list
         /\ \E r \in habit_logs' : r.log_date = req[p].log_date
         /\ \A r, o \in habit_logs' : r.log_date = o.log_date => r = o
         /\ {r \in habit_logs' : r.log_date # req[p].log_date}
              = {r \in habit_logs : r.log_date # req[p].log_date}]_vars

\* both workers have written the same date with different lists; the
\* record holds the list of one of them alone
C7_Witness ==
  /\ pc["p1"] = "done" /\ pc["p2"] = "done"
  /\ req["p1"].op = "log" /\ req["p2"].op = "log"
  /\ req["p1"].log_date = req["p2"].log_date
  /\ req["p1"].habits_list = PyList(<< <<"a", "B">> >>)
  /\ req["p2"].habits_list = PyList(<< <<"C">> >>)
  /\ habit_logs = {[log_date |-> req["p1"].log_date,
                    habits_json |-> req["p1"].habits_json]}

(***************************************************************************)
(* C8: over well-formed records, total_habits_completed is the sum of the  *)
(* sizes of the habit sets of the non-empty records (a name repeated       *)
(* within a day counts once) and total_days is the number of them.         *)
(***************************************************************************)
C8_TotalsAreSetSizes ==
  AllWellFormed =>
    /\ Stats.stats.total_days = Cardinality(LoggedRecords(habit_logs))
    /\ Stats.stats.total_habits_completed
         = SumOfSetSizes(LoggedRecords(habit_logs))

(***************************************************************************)
(* C9 as written: best_habit is the name with the largest count, the first *)
(* met in the scan among equals, and "None yet" exactly when nothing was   *)
(* ever completed.                                                         *)
(***************************************************************************)
C9_BestIsTheName ==
  LET sq == Scanned
      st == Stats
  IN st.raised = "" =>
       /\ sq # <<>> => IsBest(sq, st.stats.best_habit)
       /\ sq = <<>> <=> st.stats.best_habit = NoneYet

(***************************************************************************)
(* C9 amended: best_habit is the capitalize() form (first character        *)
(* upper-cased, the others lower-cased) of the name with the largest       *)
(* count, the first met in the scan among equals, and it is "None yet"     *)
(* when nothing was ever completed.                                        *)
(***************************************************************************)
C9_BestIsCapitalized ==
  LET sq == Scanned
      st == Stats
  IN st.raised = "" =>
       /\ sq # <<>> =>
            \E name \in {sq[i] : i \in 1..Len(sq)} :
              IsBest(sq, name) /\ st.stats.best_habit = capitalize(name)
       /\ sq = <<>> => st.stats.best_habit = NoneYet

\* get_stats answered "Ab" for a day on which "aB" and "C" tie
C9_Witness ==
  \E p \in Procs :
    /\ StatsAnswered(p)
    /\ Occurrences(Scanned, <<"a", "B">>) = 1
    /\ Occurrences(Scanned, <<"C">>) = 1
    /\ FirstSeen(Scanned, <<"a", "B">>) < FirstSeen(Scanned, <<"C">>)
    /\ resp[p].stats.best_habit = <<"A", "b">>

(***************************************************************************)
(* C10: the tier is a function of current_streak alone with the bands 0,   *)
(* 1..3, 4..7 and above 7, and the band that selects streak_emoji is the   *)
(* band that selects the message list of get_motivation.                   *)
(***************************************************************************)
Tier(streak) ==
  CHOOSE t \in {"none", "low", "medium", "high"} :
    \/ t = "none" /\ streak = 0
    \/ t = "low" /\ streak \in 1..3
    \/ t = "medium" /\ streak \in 4..7
    \/ t = "high" /\ streak > 7

TierEmoji(t) ==
  CASE t = "none" -> "U+1F614" [] t = "low" -> "U+1F60A"
    [] t = "medium" -> "U+1F525" [] t = "high" -> "U+1F3C6"

TierCategory(t) ==
  CASE t = "none" -> "start" [] t = "low" -> "great start"
    [] t = "medium" -> "on fire" [] t = "high" -> "real habit"

C10_TiersAgree ==
  /\ Stats.raised = ""
  /\ Stats.stats.streak_emoji = TierEmoji(Tier(Stats.stats.current_streak))
  /\ \A p \in Procs :
       /\ (pc[p] = "done" /\ req[p].op = "get_stats") =>
            /\ resp[p].status = 200
            /\ resp[p].stats.streak_emoji
                 = TierEmoji(Tier(resp[p].stats.current_streak))
       /\ (pc[p] = "done" /\ req[p].op = "get_motivation") =>
            /\ resp[p].status = 200
            /\ resp[p].category = TierCategory(Tier(Stats.stats.current_streak))
            /\ \A t \in {"none", "low", "medium", "high"} :
                 resp[p].category = TierCategory(t)
                   <=> Stats.stats.streak_emoji = TierEmoji(t)

\* one worker was told the trophy, the other got a message of the highest
\* band, for a streak of exactly seven days plus one
C10_Witness ==
  /\ StatsAnswered("p1")
  /\ resp["p1"].stats.current_streak = 8
  /\ resp["p1"].stats.streak_emoji = "U+1F3C6"
  /\ pc["p2"] = "done" /\ req["p2"].op = "get_motivation"
  /\ resp["p2"].category = "real habit"

====
